---- MODULE Spec2Model ----
(***************************************************************************)
(* A model of the native keep-alive core of KeepLiveService:               *)
(*   fw_daemon.cpp  - the forked watchdog (supervisor) and its prober      *)
(*   fw_socket.cpp  - the local-socket heartbeat channel                   *)
(* Every process has its own copy of the globals of fw_daemon.cpp, since   *)
(* the supervisor is created with fork(): the globals are functions of the *)
(* process (0 is the owner, 1..MaxStarts are the forked monitors).         *)
(***************************************************************************)
EXTENDS Integers, Sequences, FiniteSets, TLC

(***************************************************************************)
(* Bounds and program constants                                            *)
(***************************************************************************)
\* number of start_daemon calls the owner makes (each may fork one monitor)
MaxStarts == 2
\* the ghost counter of reactivation cycles saturates here
MaxCycles == 4
\* pids offered to is_process_alive range over MinPid..MaxPid
MaxPid == 4
\* fw_daemon.cpp:177
max_consecutive_failures == 3
\* fw_daemon.cpp:251, the interval used when the argument is not positive
DefaultIntervalMs == 3000
\* getpid() of the owner, fw_daemon.cpp:252
OwnerPid == 1
\* connections that peers open to the channel server over one run
MaxConns == 2
\* messages a socket buffer holds before send() blocks
MaxPending == 1
\* sizeof(buffer) of the two receive loops, fw_socket.cpp:245 and :348
BufferSize == 64
\* buffer sizes offered to a stand-alone receive_with_timeout are -1..this
MaxBufferSize == 3
\* bytes waiting on the socket of a stand-alone receive_with_timeout
MaxAvail == 3
\* bytes of HEARTBEAT_MSG and of HEARTBEAT_ACK, fw_socket.cpp:42-43
LiteralLen == 2
\* the backlog given to listen(), fw_socket.cpp:104
ListenBacklog == 5

Owner == 0
Monitors == 1..MaxStarts
Procs == {Owner} \cup Monitors
MinPid == 0 - 2
\* check_interval_ms arguments offered to start_daemon
CheckIntervals == {0, 1000}
\* what system() returns: could not run, exit status 0, a non-zero exit status
SystemStatuses == {0 - 1, 0, 256}

Min(a, b) == IF a < b THEN a ELSE b

VARIABLES
    owner_alive,           \* the supervised (owner) process exists
    g_daemon_running,      \* [Procs -> BOOLEAN], each process's copy of the flag
    g_config,              \* [Procs -> DaemonConfig], each process's copy
    pc,                    \* [Monitors -> position of the monitor process]
    consecutive_failures,  \* [Monitors -> Nat], local of daemon_main_loop
    success,               \* [Monitors -> BOOLEAN], local of daemon_main_loop
    cycles,                \* history: reactivation cycles begun by a monitor
    cmds,                  \* history: commands issued in the current cycle
    clean,                 \* history: no probe was alive, no command succeeded
    probed,                \* history: result of the last probe of the cycle
    start_rets,            \* history: values returned by start_daemon
    stop_pending,          \* history: monitors that were live at a stop_daemon
    query,                 \* history: last is_daemon_running() observation
    probe_in,              \* input of a stand-alone is_process_alive call
    probe_out,             \* its result
    recv_in,               \* input of a stand-alone receive_with_timeout call
    recv_out,              \* its result
    \* -- fw_socket.cpp, the process S that hosts the channel server
    s_alive,               \* process S has not aborted
    g_server_socket,       \* S's g_server_socket
    g_socket_running,      \* S's g_socket_running
    g_socket_thread,       \* S's g_socket_thread: "none", "created", "joined"
    api_pc,                \* S's API thread: "idle", or "join" inside pthread_join
    spc,                   \* position of socket_server_thread
    client_fd,             \* local of socket_server_thread
    sfd,                   \* S's descriptor table
    backlog,               \* connections waiting on the listening socket
    conns,                 \* the kernel's connections, by id
    owed,                  \* history: positive receives not yet acknowledged
    srv_got,               \* history: payload of the server's last receive
    srv_from,              \* history: connection of the server's last receive
    srv_lost,              \* history: a receive of the running thread failed
    s_ret,                 \* history: the last return of start_socket_server_thread,
                           \* its value and the line of the return statement
    \* -- fw_socket.cpp, the process K that runs start_heartbeat_client
    g_client_socket,       \* K's g_client_socket
    g_connection_lost_callback, \* K's callback pointer is not null
    kfd,                   \* K's descriptor table
    kpc,                   \* position of start_heartbeat_client
    k_interval,            \* its interval_ms argument
    k_callbacks,           \* history: callback invocations of this call
    k_lost,                \* history: this call saw a send or receive fail:
                           \* "no", or "cb" / "null" by the callback pointer then
    k_timed_out,           \* history: this call saw a receive time out,
                           \* with the same three values
    \* -- fw_socket.cpp, two threads of S inside start_socket_server_thread
    t_pc,                  \* position of each calling thread
    t_name,                \* its socket_name argument
    t_ret,                 \* what its call returned: "none", "true", "false"
    n_threads              \* history: pthread_create calls that succeeded

daemon_vars == <<owner_alive, g_daemon_running, g_config, pc,
                 consecutive_failures, success, cycles, cmds, clean, probed,
                 start_rets, stop_pending, query>>
probe_vars == <<probe_in, probe_out, recv_in, recv_out>>
server_vars == <<s_alive, g_server_socket, g_socket_running, g_socket_thread,
                 api_pc, spc, client_fd, sfd, owed, srv_got, srv_from, srv_lost,
                 s_ret>>
kernel_vars == <<backlog, conns>>
client_vars == <<g_client_socket, g_connection_lost_callback, kfd, kpc,
                 k_interval, k_callbacks, k_lost, k_timed_out>>
starter_vars == <<t_pc, t_name, t_ret, n_threads>>
socket_vars == <<server_vars, kernel_vars, client_vars, starter_vars>>
\* what the watchdog's actions leave alone
outside_daemon == <<probe_vars, socket_vars>>
vars == <<daemon_vars, probe_vars, socket_vars>>

(***************************************************************************)
(* fw_daemon.cpp: is_process_alive                                         *)
(***************************************************************************)
\* What the OS answers for one pid: stat()'s return value, S_ISDIR of the
\* entry, kill(pid, 0)'s return value.
OsAnswerSet == [stat : {0, 0 - 1}, isdir : BOOLEAN, kill : {0, 0 - 1}]

\* The answers the OS can give for the owner's pid.  A dead process has no
\* /proc entry and kill fails with ESRCH; for a live one either check can
\* fail (restricted /proc, signal permission).
OsAnswers(alive) ==
    IF alive
    THEN {a \in OsAnswerSet : a.stat = 0 => a.isdir}
    ELSE {[stat |-> 0 - 1, isdir |-> FALSE, kill |-> 0 - 1]}

\* The AND-combination a slip would produce.
is_process_alive_and(pid, os) ==
    IF pid <= 0 THEN [ret |-> FALSE, calls |-> <<>>]
    ELSE [ret |-> (os.stat = 0 /\ os.isdir) /\ os.kill = 0,
          calls |-> <<"stat", "kill">>]

\* is_process_alive(pid): the value returned and the OS calls made.
is_process_alive(pid, os) ==
    IF pid <= 0 THEN [ret |-> FALSE, calls |-> <<>>]
    ELSE IF os.stat = 0 /\ os.isdir
         THEN [ret |-> TRUE, calls |-> <<"stat">>]
         ELSE IF os.kill = 0
              THEN [ret |-> TRUE, calls |-> <<"stat", "kill">>]
              ELSE [ret |-> FALSE, calls |-> <<"stat", "kill">>]

(***************************************************************************)
(* Initial states                                                          *)
(***************************************************************************)
NoConfig == [check_interval_ms |-> 0, parent_pid |-> 0,
             use_am_command |-> FALSE, use_socket |-> FALSE]

DaemonInit ==
    /\ owner_alive = TRUE
    /\ g_daemon_running = [p \in Procs |-> FALSE]
    /\ g_config = [p \in Procs |-> NoConfig]
    /\ pc = [c \in Monitors |-> "unborn"]
    /\ consecutive_failures = [c \in Monitors |-> 0]
    /\ success = [c \in Monitors |-> FALSE]
    /\ cycles = [c \in Monitors |-> 0]
    /\ cmds = [c \in Monitors |-> <<>>]
    /\ clean = [c \in Monitors |-> TRUE]
    /\ probed = [c \in Monitors |-> "none"]
    /\ start_rets = <<>>
    /\ stop_pending = {}
    /\ query = [asked |-> FALSE, ret |-> FALSE, monitors |-> 0, gave_up |-> FALSE]

NotCalled == [done |-> FALSE, ret |-> FALSE, calls |-> <<>>]

\* One stand-alone call of receive_with_timeout: its arguments and what the
\* socket holds: bytes waiting to be read, whether the other end is open,
\* and the system call that fails, if any.
RecvInputs ==
    [socket_fd : {0 - 1, 3}, buffer_ok : BOOLEAN,
     buffer_size : (0 - 1)..MaxBufferSize, timeout_ms : {5000},
     avail : 0..MaxAvail, peer_open : BOOLEAN,
     err : {"none", "select", "recv"}]

NoReceive == [done |-> FALSE, ret |-> 0, calls |-> <<>>]

ProbeIdle ==
    /\ probe_in = [pid |-> 0, os |-> [stat |-> 0 - 1, isdir |-> FALSE, kill |-> 0 - 1]]
    /\ probe_out = NotCalled
    /\ recv_in = [socket_fd |-> 0 - 1, buffer_ok |-> FALSE, buffer_size |-> 0,
                  timeout_ms |-> 5000, avail |-> 0, peer_open |-> FALSE,
                  err |-> "none"]
    /\ recv_out = NoReceive

(***************************************************************************)
(* fw_socket.cpp: descriptors, connections, initial state                  *)
(***************************************************************************)
ConnIds == 1..MaxConns
\* descriptors of S: one listening socket and one per accepted connection
SFds == 3..(3 + MaxConns)
\* descriptors of K: one per connect_socket_server call that succeeded
KFds == 3..(2 + MaxConns)
\* socket names offered to the API: a null pointer, the empty string, a name
SocketNames == {"null", "", "wd_sock_1"}
\* what a peer sends: the heartbeat literal (send_heartbeat) or other bytes
Payloads == {"HB", "XX"}
\* the threads of S that call start_socket_server_thread at the same time
Callers == {"a", "b"}
\* the names they pass
CallerNames == {"", "wd_sock_1", "wd_sock_2"}
\* interval_ms arguments offered to start_heartbeat_client
ClientIntervals == {1000}

FreeFd == [kind |-> "free", name |-> "", conn |-> 0]
ListenFd(name) == [kind |-> "listen", name |-> name, conn |-> 0]
ConnFd(c) == [kind |-> "conn", name |-> "", conn |-> c]
\* a connection: who opened it, whether the client end is open, the state
\* of the server end ("queued" before accept, "open", "closed"), and the
\* bytes in flight in each direction as a sequence of two-byte literals
NoConn == [by |-> "", cli_open |-> FALSE, srv |-> "closed",
           to_srv |-> <<>>, to_cli |-> <<>>]

SocketInit ==
    /\ s_alive = TRUE
    /\ g_server_socket = 0 - 1
    /\ g_socket_running = FALSE
    /\ g_socket_thread = "none"
    /\ api_pc = "idle"
    /\ spc = "none"
    /\ client_fd = 0 - 1
    /\ sfd = [f \in SFds |-> FreeFd]
    /\ backlog = <<>>
    /\ conns = [c \in ConnIds |-> NoConn]
    /\ owed = 0
    /\ srv_got = <<>>
    /\ srv_from = 0
    /\ srv_lost = FALSE
    /\ s_ret = [called |-> FALSE, ret |-> FALSE, line |-> 0]
    /\ g_client_socket = 0 - 1
    /\ g_connection_lost_callback = FALSE
    /\ kfd = [f \in KFds |-> 0]
    /\ kpc = "idle"
    /\ k_interval = 0
    /\ k_callbacks = 0
    /\ k_lost = "no"
    /\ k_timed_out = "no"
    /\ t_pc = [t \in Callers |-> "idle"]
    /\ t_name = [t \in Callers |-> "null"]
    /\ t_ret = [t \in Callers |-> "none"]
    /\ n_threads = 0

Init == DaemonInit /\ ProbeIdle /\ SocketInit

(***************************************************************************)
(* fw_daemon.cpp: the owner's API                                          *)
(***************************************************************************)
Live(c) == pc[c] \notin {"unborn", "exited"}
LiveMonitors == {c \in Monitors : Live(c)}

\* The configuration start_daemon stores (lines 249-254).
SavedConfig(check_interval_ms) ==
    [check_interval_ms |-> IF check_interval_ms > 0 THEN check_interval_ms
                           ELSE DefaultIntervalMs,
     parent_pid |-> OwnerPid,
     use_am_command |-> TRUE,
     use_socket |-> FALSE]

\* The globals the fork()ed child starts with: a copy of the owner's.
ForkChild(c, cfg) ==
    /\ g_config' = [g_config EXCEPT ![Owner] = cfg, ![c] = cfg]
    /\ g_daemon_running' = [g_daemon_running EXCEPT ![c] = g_daemon_running[Owner]]
    /\ pc' = [pc EXCEPT ![c] = "init"]

\* History entry of one start_daemon call: the value returned, and whether a
\* monitor process was running when the call was made.
Returned(ret) == [ret |-> ret, running |-> LiveMonitors # {}]

\* start_daemon(package_name, service_name, check_interval_ms) in the owner.
start_daemon(check_interval_ms) ==
    /\ owner_alive
    /\ Len(start_rets) < MaxStarts
    /\ IF g_daemon_running[Owner]
       THEN /\ start_rets' = Append(start_rets, Returned(0))
            /\ UNCHANGED <<g_config, g_daemon_running, pc>>
       ELSE \E fork_ok \in BOOLEAN :
              IF fork_ok
              THEN /\ ForkChild(Len(start_rets) + 1, SavedConfig(check_interval_ms))
                   /\ start_rets' = Append(start_rets, Returned(0))
              ELSE /\ g_config' = [g_config EXCEPT
                                     ![Owner] = SavedConfig(check_interval_ms)]
                   /\ start_rets' = Append(start_rets, Returned(0 - 1))
                   /\ UNCHANGED <<g_daemon_running, pc>>
    /\ UNCHANGED <<owner_alive, consecutive_failures, success, cycles, cmds,
                   clean, probed, stop_pending, query, outside_daemon>>

\* stop_daemon() in the owner.
stop_daemon ==
    /\ owner_alive
    /\ g_daemon_running' = [g_daemon_running EXCEPT ![Owner] = FALSE]
    /\ stop_pending' = stop_pending \cup LiveMonitors
    /\ UNCHANGED <<owner_alive, g_config, pc, consecutive_failures, success,
                   cycles, cmds, clean, probed, start_rets, query, outside_daemon>>

\* is_daemon_running() in the owner; the observation is kept with the fact.
is_daemon_running ==
    /\ owner_alive
    /\ query' = [asked |-> TRUE,
                 ret |-> g_daemon_running[Owner],
                 monitors |-> Cardinality(LiveMonitors),
                 gave_up |-> \E c \in Monitors :
                               /\ pc[c] = "exited"
                               /\ consecutive_failures[c] >= max_consecutive_failures]
    /\ UNCHANGED <<owner_alive, g_daemon_running, g_config, pc,
                   consecutive_failures, success, cycles, cmds, clean, probed,
                   start_rets, stop_pending, outside_daemon>>

\* The supervised process is killed.
OwnerDies ==
    /\ owner_alive
    /\ owner_alive' = FALSE
    /\ UNCHANGED <<g_daemon_running, g_config, pc, consecutive_failures,
                   success, cycles, cmds, clean, probed, start_rets,
                   stop_pending, query, outside_daemon>>

(***************************************************************************)
(* fw_daemon.cpp: the forked monitor process                               *)
(***************************************************************************)
\* what no step of a monitor process changes
owner_vars == <<owner_alive, start_rets, stop_pending, query, outside_daemon>>

\* Child branch of start_daemon (lines 263-288): detach, set the flag, enter
\* daemon_main_loop (its locals are initialised at lines 176-177).
ChildInit(c) ==
    /\ pc[c] = "init"
    /\ g_daemon_running' = [g_daemon_running EXCEPT ![c] = TRUE]
    /\ consecutive_failures' = [consecutive_failures EXCEPT ![c] = 0]
    /\ pc' = [pc EXCEPT ![c] = "loop"]
    /\ UNCHANGED <<owner_vars, g_config, success, cycles, cmds, clean, probed>>

\* while (g_daemon_running), line 179; the loop's end is _exit(0), line 291.
LoopTop(c) ==
    /\ pc[c] = "loop"
    /\ pc' = [pc EXCEPT ![c] = IF g_daemon_running[c] THEN "sleep" ELSE "exited"]
    /\ probed' = [probed EXCEPT ![c] = "none"]
    /\ UNCHANGED <<owner_vars, g_daemon_running, g_config, consecutive_failures,
                   success, cycles, cmds, clean>>

\* usleep(check_interval_ms * 1000), line 181.
PollSleep(c) ==
    /\ pc[c] = "sleep"
    /\ pc' = [pc EXCEPT ![c] = "probe"]
    /\ UNCHANGED <<owner_vars, g_daemon_running, g_config, consecutive_failures,
                   success, cycles, cmds, clean, probed>>

\* Where a cycle goes once the probe has reported the parent dead (187-201).
AfterDeadProbe(cfg) == IF cfg.use_am_command THEN "startservice" ELSE "broadcast"

\* The test of the probe's result the wrong way round.
RunsChainInverted(alive) == alive

\* if (!is_process_alive(g_config.parent_pid)), line 184
RunsChain(alive) == ~alive

\* The probe and the branch on its result, lines 184-187 and 221-224.
Probe(c) ==
    /\ pc[c] = "probe"
    /\ \E os \in OsAnswers(owner_alive) :
         LET r == is_process_alive(g_config[c].parent_pid, os) IN
         /\ probed' = [probed EXCEPT ![c] = IF r.ret THEN "alive" ELSE "dead"]
         /\ IF ~RunsChain(r.ret)
            THEN /\ consecutive_failures' = [consecutive_failures EXCEPT ![c] = 0]
                 /\ pc' = [pc EXCEPT ![c] = "loop"]
                 /\ clean' = [clean EXCEPT ![c] = FALSE]
                 /\ UNCHANGED <<success, cycles, cmds>>
            ELSE /\ success' = [success EXCEPT ![c] = FALSE]
                 /\ pc' = [pc EXCEPT ![c] = AfterDeadProbe(g_config[c])]
                 /\ cycles' = [cycles EXCEPT ![c] = Min(cycles[c] + 1, MaxCycles)]
                 /\ cmds' = [cmds EXCEPT ![c] = <<>>]
                 /\ UNCHANGED <<consecutive_failures, clean>>
    /\ UNCHANGED <<owner_vars, g_daemon_running, g_config>>

\* One system() call of the monitor: the command and its status are logged.
Issue(c, cmd, ret) ==
    /\ cmds' = [cmds EXCEPT ![c] = Append(cmds[c], [cmd |-> cmd, ok |-> ret = 0])]
    /\ clean' = [clean EXCEPT ![c] = clean[c] /\ ret # 0]

\* The broadcast sent whatever strategy A reported.
AfterStrategyAAlways(ok) == "broadcast"

\* After strategy A: the broadcast runs only if (!success), lines 197-201.
AfterStrategyA(ok) == IF ok THEN "result" ELSE "broadcast"

\* start_service_via_am, first command (lines 104-113).
StartService(c) ==
    /\ pc[c] = "startservice"
    /\ \E ret \in SystemStatuses :
         /\ Issue(c, "startservice", ret)
         /\ IF ret = 0
            THEN /\ success' = [success EXCEPT ![c] = TRUE]
                 /\ pc' = [pc EXCEPT ![c] = AfterStrategyA(TRUE)]
            ELSE /\ pc' = [pc EXCEPT ![c] = "foreground"]
                 /\ UNCHANGED success
    /\ UNCHANGED <<owner_vars, g_daemon_running, g_config, consecutive_failures,
                   cycles, probed>>

\* start_service_via_am, the start-foreground-service retry (lines 118-131).
StartForeground(c) ==
    /\ pc[c] = "foreground"
    /\ \E ret \in SystemStatuses :
         /\ Issue(c, "foreground", ret)
         /\ success' = [success EXCEPT ![c] = (ret = 0)]
         /\ pc' = [pc EXCEPT ![c] = AfterStrategyA(ret = 0)]
    /\ UNCHANGED <<owner_vars, g_daemon_running, g_config, consecutive_failures,
                   cycles, probed>>

\* start_via_broadcast (lines 141-158), called at line 198.
Broadcast(c) ==
    /\ pc[c] = "broadcast"
    /\ \E ret \in SystemStatuses :
         /\ Issue(c, "broadcast", ret)
         /\ success' = [success EXCEPT ![c] = (ret = 0)]
         /\ pc' = [pc EXCEPT ![c] = "result"]
    /\ UNCHANGED <<owner_vars, g_daemon_running, g_config, consecutive_failures,
                   cycles, probed>>

\* Off by one: gives up one failure late.
GiveUpLate(failures) == failures > max_consecutive_failures

\* No failure budget at all.
GiveUpNever(failures) == FALSE

\* The give-up test of line 216.
GiveUp(failures) == failures >= max_consecutive_failures

\* The counter left as it is by a successful cycle.
AfterSuccessKeep(failures) == failures

\* consecutive_failures = 0 after a successful cycle, line 205
AfterSuccess(failures) == 0

\* if (success) ... else ..., lines 203-220.
CycleResult(c) ==
    /\ pc[c] = "result"
    /\ IF success[c]
       THEN /\ consecutive_failures' =
                  [consecutive_failures EXCEPT ![c] = AfterSuccess(@)]
            /\ pc' = [pc EXCEPT ![c] = "settle"]
       ELSE /\ consecutive_failures' =
                  [consecutive_failures EXCEPT ![c] = consecutive_failures[c] + 1]
            /\ pc' = [pc EXCEPT ![c] =
                        IF GiveUp(consecutive_failures[c] + 1)
                        THEN "exited" ELSE "loop"]
    /\ UNCHANGED <<owner_vars, g_daemon_running, g_config, success, cycles,
                   cmds, clean, probed>>

\* The pause followed by taking up the pid of the restarted process.
SettleReacquire(c) ==
    /\ pc[c] = "settle"
    /\ pc' = [pc EXCEPT ![c] = "loop"]
    /\ g_config' = [g_config EXCEPT ![c].parent_pid = OwnerPid + 1]
    /\ UNCHANGED <<owner_vars, g_daemon_running, consecutive_failures,
                   success, cycles, cmds, clean, probed>>

\* sleep(5) after a successful attempt, line 208.
Settle(c) ==
    /\ pc[c] = "settle"
    /\ pc' = [pc EXCEPT ![c] = "loop"]
    /\ UNCHANGED <<owner_vars, g_daemon_running, g_config, consecutive_failures,
                   success, cycles, cmds, clean, probed>>

MonitorStep(c) ==
    \/ ChildInit(c)
    \/ LoopTop(c)
    \/ PollSleep(c)
    \/ Probe(c)
    \/ StartService(c)
    \/ StartForeground(c)
    \/ Broadcast(c)
    \/ CycleResult(c)
    \/ Settle(c)

(***************************************************************************)
(* Specifications of the watchdog                                          *)
(***************************************************************************)
\* The owner's first start_daemon call only: one monitor at most.
first_start_daemon(check_interval_ms) ==
    /\ start_rets = <<>>
    /\ start_daemon(check_interval_ms)

Next ==
    \/ \E i \in CheckIntervals : start_daemon(i)
    \/ stop_daemon
    \/ is_daemon_running
    \/ OwnerDies
    \/ \E c \in Monitors : MonitorStep(c)

\* The owner and its monitors, any number of start_daemon calls up to MaxStarts.
Spec == Init /\ [][Next]_vars

LoopNext ==
    \/ \E i \in CheckIntervals : first_start_daemon(i)
    \/ stop_daemon
    \/ is_daemon_running
    \/ OwnerDies
    \/ \E c \in Monitors : MonitorStep(c)

\* One start_daemon call: the life of a single monitor process.
LoopSpec == Init /\ [][LoopNext]_vars

\* The same, with the monitor process scheduled: a process that can take a
\* step eventually takes it.
FairLoopSpec == LoopSpec /\ \A c \in Monitors : WF_vars(MonitorStep(c))

(***************************************************************************)
(* A stand-alone call of is_process_alive on any pid and any OS answers    *)
(***************************************************************************)
ProbeInit ==
    /\ DaemonInit
    /\ SocketInit
    /\ probe_in \in [pid : MinPid..MaxPid, os : OsAnswerSet]
    /\ probe_out = NotCalled
    /\ recv_in = [socket_fd |-> 0 - 1, buffer_ok |-> FALSE, buffer_size |-> 0,
                  timeout_ms |-> 5000, avail |-> 0, peer_open |-> FALSE,
                  err |-> "none"]
    /\ recv_out = NoReceive

CallIsProcessAlive ==
    /\ ~probe_out.done
    /\ probe_out' = [done |-> TRUE,
                     ret |-> is_process_alive(probe_in.pid, probe_in.os).ret,
                     calls |-> is_process_alive(probe_in.pid, probe_in.os).calls]
    /\ UNCHANGED <<probe_in, recv_in, recv_out, daemon_vars, socket_vars>>

ProbeNext == CallIsProcessAlive

ProbeSpec == ProbeInit /\ [][ProbeNext]_vars

(***************************************************************************)
(* Properties of the watchdog                                              *)
(***************************************************************************)
InCycle(c) == pc[c] \in {"startservice", "foreground", "broadcast", "result"}

\* C1: a monitor that only ever saw the parent dead and whose commands all
\* failed begins at most 3 reactivation cycles, has begun exactly 3 when it
\* has given up, and leaves its third cycle only by exiting.
C1_ExactlyThreeCycles ==
    \A c \in Monitors :
        clean[c] =>
            /\ cycles[c] <= max_consecutive_failures
            /\ (pc[c] = "exited" => cycles[c] = max_consecutive_failures)
            /\ (cycles[c] = max_consecutive_failures =>
                    InCycle(c) \/ pc[c] = "exited")

C1_Witness ==
    \E c \in Monitors :
        /\ ~owner_alive
        /\ clean[c]
        /\ pc[c] = "exited"
        /\ cycles[c] = max_consecutive_failures

\* C2: at most one monitor process exists at any time, and a start_daemon
\* call made while a monitor is running returns 0.
C2_SingleMonitor ==
    /\ Cardinality(LiveMonitors) <= 1
    /\ \A i \in 1..Len(start_rets) :
           start_rets[i].running => start_rets[i].ret = 0

\* C3: a monitor that was running when stop_daemon was called leaves the top
\* of its loop only by exiting.
C3_StopObserved ==
    [][\A c \in Monitors :
          (c \in stop_pending /\ pc[c] = "loop" /\ pc'[c] # "loop")
              => pc'[c] = "exited"]_vars

\* C4: is_daemon_running() returns true exactly when a monitor process
\* started by start_daemon is running.
C4_QueryTellsRunning ==
    query.asked => (query.ret <=> query.monitors > 0)

\* C5 as stated: once the supervised process is dead, every monitor
\* eventually stops, whatever the commands report.
C5_AlwaysStops ==
    \A c \in Monitors : [](~owner_alive => <>(~Live(c)))

\* C5 amended: a running monitor always has fewer than 3 consecutive failed
\* cycles behind it, and once the supervised process is dead the monitor
\* eventually stops unless cycles keep being reported successful.
C5_StopsUnlessSuccess ==
    \A c \in Monitors :
        /\ [](Live(c) => consecutive_failures[c] < max_consecutive_failures)
        /\ [](~owner_alive => (<>(~Live(c)) \/ []<>(pc[c] = "settle")))

C5_Witness ==
    \E c \in Monitors :
        /\ ~owner_alive
        /\ pc[c] = "settle"
        /\ cycles[c] > max_consecutive_failures

\* C6: is_process_alive is false for pid <= 0 with no OS call made, and for
\* pid > 0 true exactly when the /proc directory exists or kill(pid, 0)
\* succeeds.
C6_ProbeOr ==
    probe_out.done =>
        LET pid == probe_in.pid
            dir == probe_in.os.stat = 0 /\ probe_in.os.isdir
            sig == probe_in.os.kill = 0
        IN  /\ (pid <= 0 => ~probe_out.ret /\ probe_out.calls = <<>>)
            /\ (pid > 0 => (probe_out.ret <=> (dir \/ sig)))

C6_Witness ==
    /\ probe_out.done
    /\ probe_in.pid > 0
    /\ probe_in.os.stat # 0
    /\ probe_in.os.kill = 0
    /\ probe_out.ret

\* C7: the commands of one cycle are issued in the order startservice,
\* foreground, broadcast; the foreground retry follows a failed startservice
\* and only that; nothing is issued after a success; the cycle's success is
\* that of some command.
Succeeded(s) == \E i \in 1..Len(s) : s[i].ok

C7_StrategyOrder ==
    \A c \in Monitors :
        LET s == cmds[c] IN
        /\ Len(s) <= 3
        /\ \A i \in 1..Len(s) :
             /\ (s[i].cmd = "startservice" =>
                    i = 1 /\ g_config[c].use_am_command)
             /\ (s[i].cmd = "foreground" =>
                    i = 2 /\ s[1].cmd = "startservice" /\ ~s[1].ok)
             /\ (s[i].cmd = "broadcast" => \A j \in 1..(i - 1) : ~s[j].ok)
             /\ (i < Len(s) => ~s[i].ok)
        /\ (pc[c] \in {"broadcast", "result"} /\ g_config[c].use_am_command =>
               /\ Len(s) >= 1
               /\ s[1].cmd = "startservice"
               /\ (~s[1].ok => Len(s) >= 2 /\ s[2].cmd = "foreground"))
        /\ (pc[c] = "result" =>
               /\ success[c] = Succeeded(s)
               /\ (g_config[c].use_am_command /\ Len(s) < 3 => s[Len(s)].ok))

C7_Witness ==
    \E c \in Monitors :
        /\ pc[c] = "result"
        /\ Len(cmds[c]) = 3
        /\ success[c]

(***************************************************************************)
(* fw_socket.cpp: the kernel's side of the sockets                         *)
(***************************************************************************)
\* socket() and accept() return the lowest descriptor that is not open.
HasFreeSFd == \E f \in SFds : sfd[f].kind = "free"
LowestFreeSFd ==
    CHOOSE f \in SFds :
        sfd[f].kind = "free" /\ \A g \in SFds : g < f => sfd[g].kind # "free"
HasFreeKFd == \E f \in KFds : kfd[f] = 0
LowestFreeKFd ==
    CHOOSE f \in KFds : kfd[f] = 0 /\ \A g \in KFds : g < f => kfd[g] # 0

\* a listening socket bound to the abstract name exists
Listening(name) == \E f \in SFds : sfd[f] = ListenFd(name)

HasFreeConn == \E c \in ConnIds : conns[c].by = ""
NextConn ==
    CHOOSE c \in ConnIds :
        conns[c].by = "" /\ \A d \in ConnIds : d < c => conns[d].by # ""

\* connect() on the abstract name succeeds when a socket listens on it and
\* its backlog has room.
CanConnect(name) ==
    /\ name \notin {"null", ""}
    /\ Listening(name)
    /\ Len(backlog) < ListenBacklog
    /\ HasFreeConn

NewConn(by) == [by |-> by, cli_open |-> TRUE, srv |-> "queued",
                to_srv |-> <<>>, to_cli |-> <<>>]

\* closing the listening socket resets the connections still in its backlog;
\* bytes sent to an end that is closed are dropped
ResetQueued(cs) ==
    [c \in ConnIds |->
        IF cs[c].srv = "queued"
        THEN [cs[c] EXCEPT !.srv = "closed", !.to_srv = <<>>] ELSE cs[c]]

\* the end of process S closes every descriptor it holds
ResetAll(cs) ==
    [c \in ConnIds |->
        IF cs[c].by # ""
        THEN [cs[c] EXCEPT !.srv = "closed", !.to_srv = <<>>] ELSE cs[c]]

\* the literals one recv() of at most buffer_size - 1 bytes takes from a
\* buffer, and the byte count it returns
Taken(buf, buffer_size) ==
    SubSeq(buf, 1, Min(Len(buf), (buffer_size - 1) \div LiteralLen))
TakenBytes(buf, buffer_size) == LiteralLen * Len(Taken(buf, buffer_size))
Rest(buf, buffer_size) ==
    SubSeq(buf, Len(Taken(buf, buffer_size)) + 1, Len(buf))

\* What select() and recv() answer on one end of a connection: select fails
\* (a bad descriptor, a negative timeout, a signal), times out with nothing
\* to read, or reports the socket readable; recv then returns the bytes, or
\* 0 when the other end is closed.
RecvAnswers(valid, timeout_ms, buf, other_open) ==
    IF ~valid \/ timeout_ms < 0
    THEN {[sel |-> 0 - 1, rcv |-> 0 - 1]}
    ELSE {[sel |-> 0 - 1, rcv |-> 0 - 1]} \cup
         (IF buf # <<>>
          THEN {[sel |-> 1, rcv |-> TakenBytes(buf, BufferSize)]}
          ELSE IF ~other_open
               THEN {[sel |-> 1, rcv |-> 0]}
               ELSE {[sel |-> 0, rcv |-> 0]})

(***************************************************************************)
(* fw_socket.cpp: receive_with_timeout, create_socket_server               *)
(***************************************************************************)
\* A timeout reported like a failure.
receive_with_timeout_merged(socket_fd, buffer_ok, buffer_size, sel, rcv) ==
    IF socket_fd < 0 \/ ~buffer_ok \/ buffer_size <= 0 THEN 0 - 1
    ELSE IF sel <= 0 THEN 0 - 1
    ELSE IF rcv <= 0 THEN 0 - 1
    ELSE rcv

\* receive_with_timeout(socket_fd, buffer, buffer_size, timeout_ms), given
\* what select() and recv() answer.
receive_with_timeout(socket_fd, buffer_ok, buffer_size, sel, rcv) ==
    IF socket_fd < 0 \/ ~buffer_ok \/ buffer_size <= 0 THEN 0 - 1
    ELSE IF sel < 0 THEN 0 - 1
    ELSE IF sel = 0 THEN 0
    ELSE IF rcv <= 0 THEN 0 - 1
    ELSE rcv

\* The socket left open, and stored, when bind or listen fails.
create_socket_server_leak(socket_name, fail) ==
    IF socket_name \in {"null", ""}
    THEN [ret |-> 0 - 1, sock |-> g_server_socket, tab |-> sfd]
    ELSE IF fail = "socket" \/ ~HasFreeSFd
    THEN [ret |-> 0 - 1, sock |-> 0 - 1, tab |-> sfd]
    ELSE IF fail \in {"bind", "listen"} \/ Listening(socket_name)
    THEN [ret |-> 0 - 1, sock |-> LowestFreeSFd,
          tab |-> [sfd EXCEPT ![LowestFreeSFd] =
                                  [kind |-> "socket", name |-> "", conn |-> 0]]]
    ELSE [ret |-> LowestFreeSFd, sock |-> LowestFreeSFd,
          tab |-> [sfd EXCEPT ![LowestFreeSFd] = ListenFd(socket_name)]]

\* create_socket_server(socket_name): the value returned, g_server_socket and
\* the descriptor table afterwards.  fail names the call that fails, if any.
create_socket_server(socket_name, fail) ==
    IF socket_name \in {"null", ""}
    THEN [ret |-> 0 - 1, sock |-> g_server_socket, tab |-> sfd]
    ELSE IF fail = "socket" \/ ~HasFreeSFd
    THEN [ret |-> 0 - 1, sock |-> 0 - 1, tab |-> sfd]
    ELSE IF fail \in {"bind", "listen"} \/ Listening(socket_name)
    THEN [ret |-> 0 - 1, sock |-> 0 - 1, tab |-> sfd]
    ELSE [ret |-> LowestFreeSFd, sock |-> LowestFreeSFd,
          tab |-> [sfd EXCEPT ![LowestFreeSFd] = ListenFd(socket_name)]]

(***************************************************************************)
(* fw_socket.cpp: the API of the channel server, in process S              *)
(***************************************************************************)
server_history == <<owed, srv_got, srv_from, srv_lost>>

ReturnedAt(ret, line) == [called |-> TRUE, ret |-> ret, line |-> line]

\* The guard of line 268 never taken.
AlreadyRunningNever == FALSE

\* if (g_socket_running), line 268
AlreadyRunning == g_socket_running

\* start_socket_server_thread(socket_name)
start_socket_server_thread(socket_name) ==
    /\ s_alive
    /\ api_pc = "idle"
    /\ IF AlreadyRunning
       THEN /\ s_ret' = ReturnedAt(TRUE, 270)
            /\ UNCHANGED <<g_server_socket, g_socket_running, g_socket_thread,
                           spc, sfd, srv_lost>>
       ELSE \E fail \in {"none", "socket", "bind", "listen", "thread"} :
              LET r == create_socket_server(socket_name, fail) IN
              IF r.ret < 0
              THEN /\ g_server_socket' = r.sock
                   /\ sfd' = r.tab
                   /\ s_ret' = ReturnedAt(FALSE, 274)
                   /\ UNCHANGED <<g_socket_running, g_socket_thread, spc,
                                  srv_lost>>
              ELSE IF fail = "thread"
              THEN /\ g_server_socket' = 0 - 1
                   /\ s_ret' = ReturnedAt(FALSE, 285)
                   /\ UNCHANGED <<g_socket_running, g_socket_thread, spc, sfd,
                                  srv_lost>>
              ELSE /\ g_server_socket' = r.sock
                   /\ sfd' = r.tab
                   /\ g_socket_running' = TRUE
                   /\ g_socket_thread' = "created"
                   /\ spc' = "check"
                   /\ srv_lost' = FALSE
                   /\ s_ret' = ReturnedAt(TRUE, 289)
    /\ UNCHANGED <<s_alive, api_pc, client_fd, owed, srv_got, srv_from, kernel_vars,
                   client_vars, daemon_vars, probe_vars, starter_vars>>

\* The flag cleared and the descriptor forgotten, the listening socket left
\* open.
StopBeginNoClose ==
    /\ s_alive
    /\ api_pc = "idle"
    /\ g_socket_running' = FALSE
    /\ g_server_socket' = 0 - 1
    /\ api_pc' = "join"
    /\ UNCHANGED <<s_alive, g_socket_thread, spc, client_fd, server_history,
                   s_ret, sfd, conns, backlog, client_vars, daemon_vars,
                   probe_vars, starter_vars>>

\* stop_socket_server(), lines 298-303: clear the flag, close the listening
\* socket.  (g_client_socket of process S is never set: S does not connect.)
StopBegin ==
    /\ s_alive
    /\ api_pc = "idle"
    /\ g_socket_running' = FALSE
    /\ IF g_server_socket >= 0
       THEN /\ sfd' = [sfd EXCEPT ![g_server_socket] = FreeFd]
            /\ conns' = IF sfd[g_server_socket].kind = "listen"
                        THEN ResetQueued(conns) ELSE conns
            /\ backlog' = IF sfd[g_server_socket].kind = "listen"
                          THEN <<>> ELSE backlog
            /\ g_server_socket' = 0 - 1
       ELSE UNCHANGED <<sfd, conns, backlog, g_server_socket>>
    /\ api_pc' = "join"
    /\ UNCHANGED <<s_alive, g_socket_thread, spc, client_fd, server_history,
                   s_ret, client_vars, daemon_vars, probe_vars, starter_vars>>

\* Process S aborts: the kernel closes all its descriptors.
Aborted ==
    /\ s_alive' = FALSE
    /\ api_pc' = "aborted"
    /\ spc' = "aborted"
    /\ sfd' = [f \in SFds |-> FreeFd]
    /\ conns' = ResetAll(conns)
    /\ backlog' = <<>>

\* A join that does not wait for the thread.
JoinableAnyTime == TRUE

\* What pthread_join waits for: socket_server_thread has returned, line 261.
Joinable == spc = "done"

\* stop_socket_server(), line 311: pthread_join(g_socket_thread).  Joining a
\* thread that was never created or is already joined is undefined: the call
\* returns an error or the process aborts.
StopJoin ==
    /\ s_alive
    /\ api_pc = "join"
    /\ IF g_socket_thread = "created"
       THEN /\ Joinable
            /\ g_socket_thread' = "joined"
            /\ api_pc' = "idle"
            /\ UNCHANGED <<s_alive, spc, sfd, conns, backlog>>
       ELSE \E abort \in BOOLEAN :
              IF abort
              THEN Aborted /\ UNCHANGED g_socket_thread
              ELSE /\ api_pc' = "idle"
                   /\ UNCHANGED <<s_alive, spc, sfd, conns, backlog,
                                  g_socket_thread>>
    /\ UNCHANGED <<g_server_socket, g_socket_running, client_fd,
                   server_history, s_ret, client_vars, daemon_vars, probe_vars,
                   starter_vars>>

(***************************************************************************)
(* fw_socket.cpp: socket_server_thread                                     *)
(***************************************************************************)
thread_frame == <<s_alive, g_server_socket, g_socket_running, g_socket_thread,
                  api_pc, s_ret, client_vars, daemon_vars, probe_vars, starter_vars>>

\* while (g_socket_running && g_server_socket >= 0), line 215
SrvCheck ==
    /\ spc = "check"
    /\ spc' = IF g_socket_running /\ g_server_socket >= 0 THEN "select" ELSE "done"
    /\ UNCHANGED <<thread_frame, client_fd, sfd, server_history, kernel_vars>>

\* FD_SET and select on g_server_socket, lines 221-232.  With the descriptor
\* already reset to -1 by stop_socket_server, FD_SET(-1) is undefined: the
\* wait returns without a connection, or the process aborts.
SrvSelect ==
    /\ spc = "select"
    /\ IF g_server_socket < 0
       THEN \E abort \in BOOLEAN :
              IF abort
              THEN Aborted /\ UNCHANGED <<g_server_socket, g_socket_running,
                                          g_socket_thread, s_ret>>
              ELSE /\ spc' = "check"
                   /\ UNCHANGED <<thread_frame, sfd, kernel_vars>>
       ELSE /\ \E ret \in (IF sfd[g_server_socket].kind # "listen"
                           THEN {0 - 1}
                           ELSE IF backlog # <<>> THEN {0 - 1, 1} ELSE {0 - 1, 0}) :
                 spc' = IF ret <= 0 THEN "check" ELSE "accept"
            /\ UNCHANGED <<thread_frame, sfd, kernel_vars>>
    /\ UNCHANGED <<client_fd, server_history, client_vars, daemon_vars,
                   probe_vars, starter_vars>>

\* accept(g_server_socket, ...), lines 234-242
SrvAccept ==
    /\ spc = "accept"
    /\ IF g_server_socket < 0 \/ backlog = <<>>
       THEN /\ spc' = "check"
            /\ UNCHANGED <<client_fd, sfd, kernel_vars>>
       ELSE \E ok \in BOOLEAN :
              IF ok /\ HasFreeSFd /\ sfd[g_server_socket].kind = "listen"
              THEN /\ client_fd' = LowestFreeSFd
                   /\ sfd' = [sfd EXCEPT ![LowestFreeSFd] = ConnFd(Head(backlog))]
                   /\ conns' = [conns EXCEPT ![Head(backlog)].srv = "open"]
                   /\ backlog' = Tail(backlog)
                   /\ spc' = "inner"
              ELSE /\ spc' = "check"
                   /\ UNCHANGED <<client_fd, sfd, kernel_vars>>
    /\ UNCHANGED <<thread_frame, server_history>>

\* while (g_socket_running), line 246
SrvInner ==
    /\ spc = "inner"
    /\ spc' = IF g_socket_running THEN "recv" ELSE "close"
    /\ UNCHANGED <<thread_frame, client_fd, sfd, server_history, kernel_vars>>

\* The server acknowledging heartbeat probes only.
AfterServerReceiveHBOnly(received, got) ==
    IF received < 0 THEN "close"
    ELSE IF received > 0 /\ got = <<"HB">> THEN "ack"
    ELSE "inner"

\* The loss of a peer not taken for a reason to close it.
AfterServerReceiveKeep(received, got) ==
    IF received > 0 THEN "ack" ELSE "inner"

\* What the server does with the value received, lines 248-254.
AfterServerReceive(received, got) ==
    IF received < 0 THEN "close"
    ELSE IF received > 0 THEN "ack"
    ELSE "inner"

\* the connection behind a descriptor of S (0 when it is not a connection)
SConn(fd) == IF fd \in SFds /\ sfd[fd].kind = "conn" THEN sfd[fd].conn ELSE 0

\* receive_with_timeout(client_fd, buffer, sizeof(buffer), 5000), line 247
SrvRecv ==
    /\ spc = "recv"
    /\ LET c == SConn(client_fd)
           buf == IF c = 0 THEN <<>> ELSE conns[c].to_srv
       IN \E a \in RecvAnswers(c # 0, 5000, buf, c # 0 /\ conns[c].cli_open) :
            LET received == receive_with_timeout(client_fd, TRUE, BufferSize,
                                                 a.sel, a.rcv)
                got == IF received > 0 THEN Taken(buf, BufferSize) ELSE <<>>
            IN /\ spc' = AfterServerReceive(received, got)
               /\ srv_lost' = (srv_lost \/ received < 0)
               /\ IF received > 0
                  THEN /\ conns' = [conns EXCEPT ![c].to_srv = Rest(buf, BufferSize)]
                       /\ owed' = owed + 1
                       /\ srv_got' = got
                       /\ srv_from' = c
                  ELSE UNCHANGED <<conns, owed, srv_got, srv_from>>
    /\ UNCHANGED <<thread_frame, client_fd, sfd, backlog>>

\* send(client_fd, HEARTBEAT_ACK, ...), line 253; the result is not looked
\* at.  With the peer gone the send fails; with the peer's buffer full it
\* blocks.
SrvAck ==
    /\ spc = "ack"
    /\ LET c == SConn(client_fd) IN
         /\ c # 0
         /\ conns[c].cli_open => Len(conns[c].to_cli) < MaxPending
         /\ conns' = IF conns[c].cli_open
                     THEN [conns EXCEPT ![c].to_cli = Append(@, "OK")]
                     ELSE conns
    /\ owed' = owed - 1
    /\ spc' = "inner"
    /\ UNCHANGED <<thread_frame, client_fd, sfd, backlog, srv_got, srv_from,
                   srv_lost>>

\* The peer's socket left open when the inner loop ends.
SrvClosePeerLeak ==
    /\ spc = "close"
    /\ client_fd' = 0 - 1
    /\ spc' = "check"
    /\ UNCHANGED <<thread_frame, sfd, kernel_vars, server_history>>

\* close(client_fd), line 257
SrvClosePeer ==
    /\ spc = "close"
    /\ sfd' = [sfd EXCEPT ![client_fd] = FreeFd]
    /\ conns' = [conns EXCEPT ![SConn(client_fd)].srv = "closed",
                              ![SConn(client_fd)].to_srv = <<>>]
    /\ client_fd' = 0 - 1
    /\ spc' = "check"
    /\ UNCHANGED <<thread_frame, backlog, server_history>>

ServerThread ==
    \/ SrvCheck
    \/ SrvSelect
    \/ SrvAccept
    \/ SrvInner
    \/ SrvRecv
    \/ SrvAck
    \/ SrvClosePeer

(***************************************************************************)
(* Peers of the server: processes that connect to it and use the socket    *)
(* directly or through send_heartbeat                                      *)
(***************************************************************************)
peer_frame == <<server_vars, client_vars, daemon_vars, probe_vars, starter_vars>>

\* connect() to the server's name from another process
PeerConnect ==
    /\ CanConnect("wd_sock_1")
    /\ conns' = [conns EXCEPT ![NextConn] = NewConn("peer")]
    /\ backlog' = Append(backlog, NextConn)
    /\ UNCHANGED peer_frame

\* a send that succeeds: send_heartbeat for "HB", a plain send() otherwise
PeerSend(c, m) ==
    /\ conns[c].by = "peer"
    /\ conns[c].cli_open
    /\ conns[c].srv # "closed"
    /\ Len(conns[c].to_srv) < MaxPending
    /\ conns' = [conns EXCEPT ![c].to_srv = Append(@, m)]
    /\ UNCHANGED <<backlog, peer_frame>>

\* a receive that returns what the server has sent
PeerReceive(c) ==
    /\ conns[c].by = "peer"
    /\ conns[c].cli_open
    /\ conns[c].to_cli # <<>>
    /\ conns' = [conns EXCEPT ![c].to_cli = Rest(@, BufferSize)]
    /\ UNCHANGED <<backlog, peer_frame>>

\* close() of the peer's end, or the peer's death
PeerClose(c) ==
    /\ conns[c].by = "peer"
    /\ conns[c].cli_open
    /\ conns' = [conns EXCEPT ![c].cli_open = FALSE, ![c].to_cli = <<>>]
    /\ UNCHANGED <<backlog, peer_frame>>

(***************************************************************************)
(* fw_socket.cpp: the heartbeat client, in process K                       *)
(***************************************************************************)
client_frame == <<server_vars, daemon_vars, probe_vars, starter_vars>>
client_history == <<k_callbacks, k_lost, k_timed_out>>

\* set_connection_lost_callback(callback), before the client loop is entered
set_connection_lost_callback(callback) ==
    /\ kpc \in {"idle", "failed", "returned"}
    /\ g_connection_lost_callback' = callback
    /\ UNCHANGED <<g_client_socket, kfd, kpc, k_interval, client_history,
                   kernel_vars, client_frame>>

\* connect_socket_server(socket_name): the value returned, g_client_socket,
\* the descriptor table, the connections and the backlog afterwards.
connect_socket_server(socket_name, fail) ==
    IF socket_name \in {"null", ""}
    THEN [ret |-> 0 - 1, sock |-> g_client_socket, tab |-> kfd,
          cs |-> conns, bl |-> backlog]
    ELSE IF fail = "socket" \/ ~HasFreeKFd
    THEN [ret |-> 0 - 1, sock |-> 0 - 1, tab |-> kfd,
          cs |-> conns, bl |-> backlog]
    ELSE IF fail = "connect" \/ ~CanConnect(socket_name)
    THEN [ret |-> 0 - 1, sock |-> 0 - 1, tab |-> kfd,
          cs |-> conns, bl |-> backlog]
    ELSE [ret |-> LowestFreeKFd, sock |-> LowestFreeKFd,
          tab |-> [kfd EXCEPT ![LowestFreeKFd] = NextConn],
          cs |-> [conns EXCEPT ![NextConn] = NewConn("K")],
          bl |-> Append(backlog, NextConn)]

\* start_heartbeat_client(socket_name, interval_ms), lines 329-334
HeartbeatStart(socket_name, interval_ms) ==
    /\ kpc \in {"idle", "failed", "returned"}
    /\ \E fail \in {"none", "socket", "connect"} :
         LET r == connect_socket_server(socket_name, fail) IN
         /\ g_client_socket' = r.sock
         /\ kfd' = r.tab
         /\ conns' = r.cs
         /\ backlog' = r.bl
         /\ kpc' = IF r.ret < 0 THEN "failed" ELSE "check"
    /\ k_interval' = interval_ms
    /\ k_callbacks' = 0
    /\ k_lost' = "no"
    /\ k_timed_out' = "no"
    /\ UNCHANGED <<g_connection_lost_callback, client_frame>>

\* while (g_client_socket >= 0), line 338; return true, line 362.  The call
\* ends in "returned" when it returns true, in "failed" when it returns false.
HeartbeatCheck ==
    /\ kpc = "check"
    /\ kpc' = IF g_client_socket >= 0 THEN "send" ELSE "returned"
    /\ UNCHANGED <<g_client_socket, g_connection_lost_callback, kfd,
                   k_interval, client_history, kernel_vars, client_frame>>

\* the connection behind a descriptor of K (0 when there is none)
KConn(fd) == IF fd \in KFds THEN kfd[fd] ELSE 0

\* History: a failure of send or receive, with the callback pointer's state.
Failure == IF g_connection_lost_callback THEN "cb" ELSE "null"

\* if (g_connection_lost_callback != nullptr) g_connection_lost_callback();
\* break; and the return true that follows (lines 341-344, 352-355, 362)
Lost ==
    /\ k_callbacks' = IF g_connection_lost_callback
                      THEN k_callbacks + 1 ELSE k_callbacks
    /\ kpc' = "returned"

\* send_heartbeat(socket_fd): whether it returns true, given what send()
\* returns.
send_heartbeat(socket_fd, sent) ==
    IF socket_fd < 0 THEN FALSE
    ELSE IF sent <= 0 THEN FALSE
    ELSE TRUE

\* The system calls send_heartbeat makes, lines 156-158.
send_heartbeat_calls(socket_fd) == IF socket_fd < 0 THEN <<>> ELSE <<"send">>

\* What send() of one literal can return on K's end of connection c: -1 when
\* the descriptor is bad, the peer is gone or the call fails otherwise, the
\* literal's length when the bytes were queued.
SendAnswers(c) ==
    IF c = 0 \/ conns[c].srv = "closed" THEN {0 - 1}
    ELSE {0 - 1, LiteralLen}

\* if (!send_heartbeat(g_client_socket)) ..., lines 339-345
HeartbeatSend ==
    /\ kpc = "send"
    /\ LET c == KConn(g_client_socket) IN
       \E sent \in SendAnswers(c) :
         IF send_heartbeat(g_client_socket, sent)
         THEN /\ Len(conns[c].to_srv) < MaxPending
              /\ conns' = [conns EXCEPT ![c].to_srv = Append(@, "HB")]
              /\ kpc' = "recv"
              /\ UNCHANGED <<k_lost, k_callbacks>>
         ELSE /\ Lost
              /\ k_lost' = Failure
              /\ UNCHANGED conns
    /\ UNCHANGED <<g_client_socket, g_connection_lost_callback, kfd,
                   k_interval, k_timed_out, backlog, client_frame>>

\* A negative receive not taken for a loss.
AfterClientReceiveLax(received) == "sleep"

\* What the client loop does with the value received, line 350.
AfterClientReceive(received) == IF received < 0 THEN "lost" ELSE "sleep"

\* receive_with_timeout(g_client_socket, buffer, sizeof(buffer), interval_ms)
\* and the test of its result, lines 348-356
HeartbeatReceive ==
    /\ kpc = "recv"
    /\ LET c == KConn(g_client_socket)
           buf == IF c = 0 THEN <<>> ELSE conns[c].to_cli
       IN \E a \in RecvAnswers(c # 0, k_interval, buf,
                               c # 0 /\ conns[c].srv # "closed") :
            LET received == receive_with_timeout(g_client_socket, TRUE,
                                                 BufferSize, a.sel, a.rcv)
            IN /\ conns' = IF received > 0
                           THEN [conns EXCEPT ![c].to_cli = Rest(buf, BufferSize)]
                           ELSE conns
               /\ k_timed_out' = IF received = 0 THEN Failure ELSE k_timed_out
               /\ k_lost' = IF received < 0 THEN Failure ELSE k_lost
               /\ IF AfterClientReceive(received) = "lost"
                  THEN Lost
                  ELSE /\ kpc' = "sleep"
                       /\ UNCHANGED k_callbacks
    /\ UNCHANGED <<g_client_socket, g_connection_lost_callback, kfd,
                   k_interval, backlog, client_frame>>

\* usleep(interval_ms * 1000), line 359
HeartbeatSleep ==
    /\ kpc = "sleep"
    /\ kpc' = "check"
    /\ UNCHANGED <<g_client_socket, g_connection_lost_callback, kfd,
                   k_interval, client_history, kernel_vars, client_frame>>

HeartbeatClient ==
    \/ HeartbeatCheck
    \/ HeartbeatSend
    \/ HeartbeatReceive
    \/ HeartbeatSleep

(***************************************************************************)
(* Specification of the heartbeat channel                                  *)
(***************************************************************************)
ServeNext ==
    \/ \E n \in SocketNames : start_socket_server_thread(n)
    \/ StopBegin
    \/ StopJoin
    \/ ServerThread
    \/ PeerConnect
    \/ \E c \in ConnIds, m \in Payloads : PeerSend(c, m)
    \/ \E c \in ConnIds : PeerReceive(c)
    \/ \E c \in ConnIds : PeerClose(c)

\* Process S with the channel server, and the peers that connect to it.
ServeSpec == Init /\ [][ServeNext]_vars

ClientNext ==
    \/ \E n \in SocketNames : start_socket_server_thread(n)
    \/ StopBegin
    \/ StopJoin
    \/ ServerThread
    \/ \E cb \in BOOLEAN : set_connection_lost_callback(cb)
    \/ \E n \in SocketNames, i \in ClientIntervals : HeartbeatStart(n, i)
    \/ HeartbeatClient

\* ServeSpec with the thread of socket_server_thread and the thread that is
\* inside pthread_join both scheduled: neither is suspended for ever while
\* it can take a step.
FairServeSpec ==
    /\ ServeSpec
    /\ WF_vars(ServerThread)
    /\ WF_vars(StopJoin)

\* Process S with the channel server, process K with the heartbeat client.
ClientSpec == Init /\ [][ClientNext]_vars

(***************************************************************************)
(* Properties of the heartbeat channel                                     *)
(***************************************************************************)
C8_State ==
    /\ owed \in {0, 1}
    /\ (owed = 1 <=> spc = "ack")
    /\ (spc = "ack" => srv_from # 0 /\ srv_from = SConn(client_fd))
    /\ \A c \in ConnIds :
         \A i \in 1..Len(conns[c].to_cli) : conns[c].to_cli[i] = "OK"

C8_Step ==
    spc = "ack" /\ spc' # "ack" =>
        /\ spc' = "inner"
        /\ owed' = 0
        /\ (conns[srv_from].cli_open =>
               conns'[srv_from].to_cli = Append(conns[srv_from].to_cli, "OK"))

\* C8: a receive of the server that returns bytes, whatever they are, leaves
\* the server owing exactly one "OK", which it sends on the connection it
\* received from before it receives again; what a peer reads from the server
\* is that literal.
C8_AckEveryReceive == []C8_State /\ [][C8_Step]_vars

C8_Witness ==
    /\ spc = "inner"
    /\ owed = 0
    /\ srv_got = <<"XX">>
    /\ srv_from = SConn(client_fd)
    /\ conns[srv_from].to_cli = <<"OK">>

\* C9: a heartbeat call that saw its send or its receive fail has ended, and
\* has invoked the callback once if one was registered and never otherwise;
\* only a new call by the owner connects or sends again.
C9_LossEndsLoop ==
    /\ k_callbacks <= 1
    /\ (k_lost = "no" => k_callbacks = 0)
    /\ (k_lost = "cb" => kpc = "returned" /\ k_callbacks = 1)
    /\ (k_lost = "null" => kpc = "returned" /\ k_callbacks = 0)

C9_Witness ==
    /\ k_lost = "cb"
    /\ kpc = "returned"
    /\ k_callbacks = 1
    /\ g_client_socket >= 0
    /\ conns[KConn(g_client_socket)].srv = "closed"

\* C10: a heartbeat call that saw a receive time out has ended and has
\* invoked the callback once if one was registered.
C10_TimeoutEndsLoop ==
    /\ (k_timed_out = "cb" => kpc = "returned" /\ k_callbacks = 1)
    /\ (k_timed_out = "null" => kpc = "returned" /\ k_callbacks = 0)

\* the server thread's active peer is gone: its end is closed and nothing it
\* sent is left to read
PeerGone ==
    /\ SConn(client_fd) # 0
    /\ ~conns[SConn(client_fd)].cli_open
    /\ conns[SConn(client_fd)].to_srv = <<>>

C11_Step ==
    /\ (spc = "recv" /\ PeerGone /\ spc' # "recv" /\ s_alive' => spc' = "close")
    /\ (spc = "recv" /\ ~srv_lost /\ srv_lost' => spc' = "close")
    /\ (spc = "close" /\ spc' # "close" /\ s_alive' =>
           /\ spc' = "check"
           /\ client_fd' = 0 - 1
           /\ sfd'[client_fd] = FreeFd
           /\ conns'[SConn(client_fd)].srv = "closed"
           /\ g_socket_running' = g_socket_running
           /\ g_server_socket' = g_server_socket
           /\ (g_server_socket >= 0 => sfd'[g_server_socket] = sfd[g_server_socket]))
    /\ (spc = "check" /\ g_socket_running /\ g_server_socket >= 0 /\ spc' # "check"
           => spc' = "select")

\* C11: a receive of the server on a peer that has closed, or one that
\* errors, ends with the server closing that peer's socket and going back to
\* the top of its accept loop, with the running flag and the listening socket
\* as they were; a running server goes from there to waiting for a connection.
C11_PeerLossKeepsServer == [][C11_Step]_vars

\* a receive of the running thread has failed, and the same thread has since
\* accepted another connection and acknowledged its message
C11_Witness ==
    /\ srv_lost
    /\ g_socket_running
    /\ g_server_socket >= 0
    /\ sfd[g_server_socket].kind = "listen"
    /\ spc = "inner"
    /\ owed = 0
    /\ srv_from = SConn(client_fd)
    /\ conns[srv_from].to_cli = <<"OK">>
    /\ \E c \in ConnIds : c # srv_from /\ conns[c].srv = "closed"
                          /\ ~conns[c].cli_open

\* C12: a receive of the server that ends without data, a timeout included,
\* is followed by the server closing the peer's socket.
C12_TimeoutClosesPeer ==
    [][spc = "recv" /\ spc' # "recv" /\ s_alive' /\ owed' = owed
         => spc' = "close"]_vars

\* C13: once stop_socket_server has returned from joining a started thread,
\* the running flag is false, g_server_socket is -1, process S holds no open
\* descriptor (listening or accepted), no connection has an open server end,
\* and socket_server_thread has returned.
C13_StopLeavesNothing ==
    g_socket_thread = "joined" /\ s_alive =>
        /\ ~g_socket_running
        /\ g_server_socket = 0 - 1
        /\ client_fd = 0 - 1
        /\ spc = "done"
        /\ \A f \in SFds : sfd[f] = FreeFd
        /\ \A c \in ConnIds : conns[c].by # "" => conns[c].srv = "closed"
        /\ backlog = <<>>

\* stop_socket_server has returned while a peer the thread was serving, with
\* no receive failed, still holds its end open
C13_Witness ==
    /\ g_socket_thread = "joined"
    /\ s_alive
    /\ api_pc = "idle"
    /\ ~srv_lost
    /\ srv_from # 0
    /\ conns[srv_from].cli_open
    /\ conns[srv_from].srv = "closed"

\* C14: a call of start_socket_server_thread made while the running flag is
\* set returns true and leaves the listening socket, the descriptor table,
\* the thread and its position, and the connections as they were.
C14_StartTwice ==
    [][(\E n \in SocketNames : start_socket_server_thread(n)) /\ g_socket_running
         => /\ s_ret'.ret
            /\ UNCHANGED <<g_server_socket, g_socket_running, g_socket_thread,
                           spc, sfd, client_fd, conns, backlog>>]_vars

\* a call has returned true from line 270, and the one thread and the one
\* listening socket of the first call are there
C14_Witness ==
    /\ s_ret = ReturnedAt(TRUE, 270)
    /\ g_socket_running
    /\ g_socket_thread = "created"
    /\ spc \notin {"none", "done", "aborted"}
    /\ Cardinality({f \in SFds : sfd[f].kind = "listen"}) = 1
    /\ sfd[g_server_socket].kind = "listen"

(***************************************************************************)
(* A stand-alone call of receive_with_timeout on any arguments and any     *)
(* state of the socket                                                     *)
(***************************************************************************)
\* select(socket_fd + 1, &read_fds, ...), line 182: -1 when it fails, 1 when
\* the socket is readable (bytes wait, or the other end is closed), 0 when
\* the timeout expires.
SelectAnswer(in) ==
    IF in.err = "select" \/ in.timeout_ms < 0 THEN 0 - 1
    ELSE IF in.avail > 0 \/ ~in.peer_open THEN 1
    ELSE 0

\* recv(socket_fd, buffer, buffer_size - 1, 0), line 191: -1 when it fails,
\* else the bytes it copies: all that wait, up to the length asked for.
RecvAnswer(in) ==
    IF in.err = "recv" THEN 0 - 1
    ELSE Min(in.avail, in.buffer_size - 1)

\* The system calls receive_with_timeout makes, lines 172-191.
receive_calls(socket_fd, buffer_ok, buffer_size, sel) ==
    IF socket_fd < 0 \/ ~buffer_ok \/ buffer_size <= 0 THEN <<>>
    ELSE IF sel <= 0 THEN <<"select">>
    ELSE <<"select", "recv">>

RecvInit ==
    /\ DaemonInit
    /\ SocketInit
    /\ probe_in = [pid |-> 0, os |-> [stat |-> 0 - 1, isdir |-> FALSE, kill |-> 0 - 1]]
    /\ probe_out = NotCalled
    /\ recv_in \in RecvInputs
    /\ recv_out = NoReceive

CallReceiveWithTimeout ==
    /\ ~recv_out.done
    /\ recv_out' =
         [done |-> TRUE,
          ret |-> receive_with_timeout(recv_in.socket_fd, recv_in.buffer_ok,
                                       recv_in.buffer_size, SelectAnswer(recv_in),
                                       RecvAnswer(recv_in)),
          calls |-> receive_calls(recv_in.socket_fd, recv_in.buffer_ok,
                                  recv_in.buffer_size, SelectAnswer(recv_in))]
    /\ UNCHANGED <<probe_in, probe_out, recv_in, daemon_vars, socket_vars>>

RecvNext == CallReceiveWithTimeout

RecvSpec == RecvInit /\ [][RecvNext]_vars

RecvValid == recv_in.socket_fd >= 0 /\ recv_in.buffer_ok /\ recv_in.buffer_size > 0
\* a system call the function made has failed
RecvFailed ==
    \/ recv_in.err = "select"
    \/ recv_in.err = "recv" /\ SelectAnswer(recv_in) = 1

\* C15 as stated: receive_with_timeout returns the positive number of bytes read, at
\* most buffer_size - 1, when its arguments are valid, no call fails and
\* bytes wait on the socket; 0 exactly when its arguments are valid, no call
\* fails, nothing waits and the other end is open; and -1 when an argument is
\* invalid, a call fails, or the other end is closed with nothing to read.
C15_ThreeOutcomes ==
    recv_out.done =>
        /\ (RecvValid /\ ~RecvFailed /\ recv_in.avail > 0 =>
               /\ recv_out.ret > 0
               /\ recv_out.ret <= recv_in.buffer_size - 1
               /\ recv_out.ret <= recv_in.avail)
        /\ (recv_out.ret = 0 <=>
               RecvValid /\ ~RecvFailed /\ recv_in.avail = 0
                         /\ recv_in.peer_open)
        /\ (~RecvValid \/ RecvFailed
               \/ (recv_in.avail = 0 /\ ~recv_in.peer_open) =>
               recv_out.ret = 0 - 1)

\* C15 amended: the same, with the positive byte count promised only for a
\* buffer_size of 2 or more; with a buffer_size of 1, recv is asked for 0
\* bytes and bytes waiting on the socket are reported as -1.
C15_ThreeOutcomesWithRoom ==
    recv_out.done =>
        /\ (RecvValid /\ ~RecvFailed /\ recv_in.avail > 0
                /\ recv_in.buffer_size >= 2 =>
               /\ recv_out.ret > 0
               /\ recv_out.ret <= recv_in.buffer_size - 1
               /\ recv_out.ret <= recv_in.avail)
        /\ (RecvValid /\ ~RecvFailed /\ recv_in.avail > 0
                /\ recv_in.buffer_size = 1 => recv_out.ret = 0 - 1)
        /\ (recv_out.ret = 0 <=>
               RecvValid /\ ~RecvFailed /\ recv_in.avail = 0
                         /\ recv_in.peer_open)
        /\ (~RecvValid \/ RecvFailed
               \/ (recv_in.avail = 0 /\ ~recv_in.peer_open) =>
               recv_out.ret = 0 - 1)

\* a read that fills the buffer and leaves bytes on the socket
C15_Witness ==
    /\ recv_out.done
    /\ recv_out.ret > 0
    /\ recv_out.ret = recv_in.buffer_size - 1
    /\ recv_in.avail > recv_out.ret

AcceptedFds == {f \in SFds : sfd[f].kind = "conn"}

\* C16: process S holds at most one accepted socket, at most one connection
\* has an open server end, and the server thread is never about to call
\* accept while it holds an accepted socket.
C16_OnePeer ==
    /\ Cardinality(AcceptedFds) <= 1
    /\ Cardinality({c \in ConnIds : conns[c].srv = "open"}) <= 1
    /\ (spc \in {"check", "select", "accept"} => AcceptedFds = {})

\* a second connection has arrived while the server is serving its peer
C16_Witness ==
    /\ spc = "recv"
    /\ Cardinality(AcceptedFds) = 1
    /\ backlog # <<>>
    /\ conns[Head(backlog)].cli_open
    /\ conns[SConn(client_fd)].cli_open

\* C17: while a newer connection waits on the listening socket, a receive
\* of the server on its old peer ends with the server closing the old peer
\* (to accept the newer one), never with the old peer served further.
C17_NewSupersedes ==
    [][spc = "recv" /\ backlog # <<>> /\ conns[Head(backlog)].cli_open
          /\ spc' # "recv" /\ s_alive'
         => spc' = "close"]_vars

ValidNames == SocketNames \ {"null", ""}

C18_Step ==
    /\ ((\E n \in ValidNames : start_socket_server_thread(n)) /\ ~s_ret'.ret =>
           /\ ~g_socket_running'
           /\ g_server_socket' = 0 - 1
           /\ \A f \in SFds : sfd'[f] = FreeFd
           /\ g_socket_thread' = g_socket_thread
           /\ spc' = spc
           /\ spc' \in {"none", "done"}
           /\ UNCHANGED <<conns, backlog>>)
    /\ ((\E n \in ValidNames : \E i \in ClientIntervals : HeartbeatStart(n, i))
          /\ kpc' = "failed" =>
           /\ g_client_socket' = 0 - 1
           /\ UNCHANGED <<kfd, conns, backlog>>)

\* C18: a call of start_socket_server_thread with a usable name that returns
\* false leaves the running flag false, g_server_socket at -1, no descriptor
\* of process S open and no thread running; a connect_socket_server with a
\* usable name that fails leaves g_client_socket at -1 and opens neither a
\* descriptor nor a connection.
C18_FailedStartLeavesNothing == [][C18_Step]_vars

\* thread creation has failed after the listening socket was set up
C18_Witness ==
    /\ s_ret = ReturnedAt(FALSE, 285)
    /\ ~g_socket_running
    /\ g_server_socket = 0 - 1
    /\ \A f \in SFds : sfd[f] = FreeFd
    /\ kpc = "failed"
    /\ g_client_socket = 0 - 1

InvalidNames == {"null", ""}

C19_Step ==
    /\ \A n \in InvalidNames :
         /\ create_socket_server(n, "none") =
                [ret |-> 0 - 1, sock |-> g_server_socket, tab |-> sfd]
         /\ connect_socket_server(n, "none") =
                [ret |-> 0 - 1, sock |-> g_client_socket, tab |-> kfd,
                 cs |-> conns, bl |-> backlog]
    /\ ((\E n \in InvalidNames : start_socket_server_thread(n)) =>
           /\ ~s_ret'.ret
           /\ UNCHANGED <<g_server_socket, g_socket_running, g_socket_thread,
                          spc, sfd, conns, backlog>>)
    /\ ((\E n \in InvalidNames : \E i \in ClientIntervals : HeartbeatStart(n, i)) =>
           /\ kpc' = "failed"
           /\ UNCHANGED <<g_client_socket, kfd, conns, backlog>>)
    /\ \A sent \in {0 - 1, LiteralLen} : ~send_heartbeat(0 - 1, sent)
    /\ send_heartbeat_calls(0 - 1) = <<>>
    /\ \A sel \in {0 - 1, 0, 1} : \A rcv \in (0 - 1)..BufferSize :
         /\ receive_with_timeout(0 - 1, TRUE, BufferSize, sel, rcv) = 0 - 1
         /\ receive_calls(0 - 1, TRUE, BufferSize, sel) = <<>>

\* C19: create_socket_server, connect_socket_server and
\* start_socket_server_thread given a null or empty name return -1 / false
\* and leave the descriptors, the stored sockets, the running flag and the
\* thread as they were; send_heartbeat and receive_with_timeout given a
\* negative descriptor return false / -1 and make no system call.
C19_InvalidInputRejected == [][C19_Step]_vars

C20_Step ==
    \A c \in Monitors :
        /\ (pc[c] = "sleep" /\ pc'[c] # "sleep" => pc'[c] = "probe")
        /\ (pc[c] # "probe" /\ pc'[c] = "probe" => pc[c] = "sleep")
        /\ (pc[c] = "probe" /\ pc'[c] # "probe" =>
               \/ probed'[c] = "dead"
                    /\ pc'[c] \in {"startservice", "broadcast"}
               \/ probed'[c] = "alive" /\ pc'[c] = "loop")
        /\ (Len(cmds'[c]) > Len(cmds[c]) => probed[c] = "dead")

\* C20: every probe of a monitor directly follows the sleep of its cycle and
\* every sleep is followed by a probe; a probe that reports the parent dead
\* starts the strategy chain, one that reports it alive goes back to the top
\* of the loop; and a reactivation command is issued only in a cycle whose
\* probe reported dead.
C20_ChainIffDead ==
    /\ [][C20_Step]_vars
    /\ [](\A c \in Monitors :
            pc[c] \in {"startservice", "foreground", "broadcast", "result"}
                => probed[c] = "dead")

\* a cycle whose probe reported the parent alive has ended with no command
C20_Witness ==
    \E c \in Monitors :
        /\ pc[c] = "loop"
        /\ probed[c] = "alive"
        /\ cmds[c] = <<>>
        /\ owner_alive

C21_Step ==
    \A c \in Monitors :
        /\ (pc[c] = "probe" /\ pc'[c] # "probe" /\ probed'[c] = "alive" =>
               consecutive_failures'[c] = 0)
        /\ (pc[c] = "result" /\ pc'[c] # "result" =>
               consecutive_failures'[c] =
                   IF success[c] THEN 0 ELSE consecutive_failures[c] + 1)
        /\ (consecutive_failures'[c] # consecutive_failures[c] =>
               \/ pc[c] = "init"
               \/ pc[c] = "probe" /\ probed'[c] = "alive"
               \/ pc[c] = "result")
        /\ (pc[c] # "exited" /\ pc'[c] = "exited" /\ pc[c] = "result" =>
               ~success[c] /\ consecutive_failures'[c] = max_consecutive_failures)

\* C21: an alive probe and a successful cycle set the counter to 0, a failed
\* cycle adds exactly 1 and nothing else changes it; the counter stays within
\* 0..3 and is below 3 while the monitor runs, and the monitor gives up only
\* on a failed cycle that brings the counter to 3.
C21_CounterResets ==
    /\ [][C21_Step]_vars
    /\ [](\A c \in Monitors :
            /\ consecutive_failures[c] \in 0..max_consecutive_failures
            /\ (Live(c) => consecutive_failures[c] < max_consecutive_failures))

\* a monitor has given up on its third consecutive failure after more than
\* three cycles: a success in between has reset the counter
C21_Witness ==
    \E c \in Monitors :
        /\ pc[c] = "exited"
        /\ consecutive_failures[c] = max_consecutive_failures
        /\ cycles[c] > max_consecutive_failures

\* C22: a copy of g_daemon_running goes from false to true only in a monitor
\* that is being started, and in a monitor whose loop has ended the flag is
\* false.
C22_FlagLifecycle ==
    /\ [][\A p \in Procs :
            ~g_daemon_running[p] /\ g_daemon_running'[p] =>
                p \in Monitors /\ pc[p] = "init"]_vars
    /\ [](\A c \in Monitors : pc[c] = "exited" => ~g_daemon_running[c])

\* C23: the configuration of a monitor process does not change once the
\* process exists, and the pid a running monitor probes is the pid of the
\* process that called start_daemon, also after a successful reactivation.
C23_ConfigFixed ==
    /\ [][\A c \in Monitors : pc[c] # "unborn" => g_config'[c] = g_config[c]]_vars
    /\ [](\A c \in Monitors :
            Live(c) => /\ g_config[c].parent_pid = OwnerPid
                       /\ g_config[c].check_interval_ms \in {1000, DefaultIntervalMs}
                       /\ g_config[c].use_am_command)

\* a monitor is about to probe again after a cycle that was reported
\* successful
C23_Witness ==
    \E c \in Monitors :
        /\ pc[c] = "probe"
        /\ success[c]
        /\ cycles[c] >= 1
        /\ ~owner_alive
        /\ g_config[c].parent_pid = OwnerPid

\* C24: once stop_socket_server has cleared the flag and waits in
\* pthread_join for a thread that was created, the thread returns and the
\* join completes.
C24_JoinCompletes ==
    (api_pc = "join" /\ g_socket_thread = "created")
        ~> (api_pc = "idle" /\ g_socket_thread = "joined" /\ spc = "done")

\* C25: when start_heartbeat_client has returned because a send or a
\* receive failed, the client's descriptor is closed and g_client_socket
\* does not name an open socket.
C25_LossClosesEndpoint ==
    kpc = "returned" /\ k_lost # "no" =>
        /\ g_client_socket < 0
        /\ \A f \in KFds : kfd[f] = 0

(***************************************************************************)
(* fw_socket.cpp: start_socket_server_thread called by two threads of S    *)
(* at the same time; each step is one read or write of the globals         *)
(***************************************************************************)
caller_frame == <<s_alive, api_pc, spc, client_fd, server_history, s_ret,
                  kernel_vars, client_vars, daemon_vars, probe_vars>>

BoundFd(name) == [kind |-> "bound", name |-> name, conn |-> 0]

\* bind() refuses an abstract name that a socket of the system holds
NameTaken(name) ==
    \E f \in SFds : sfd[f].kind \in {"bound", "listen"} /\ sfd[f].name = name

\* close(fd) on the descriptor table of S
Closed(fd) == IF fd \in SFds THEN [sfd EXCEPT ![fd] = FreeFd] ELSE sfd

Goto(t, where) ==
    /\ t_pc' = [t_pc EXCEPT ![t] = where]
    /\ UNCHANGED t_ret

Return(t, value) ==
    /\ t_pc' = [t_pc EXCEPT ![t] = "done"]
    /\ t_ret' = [t_ret EXCEPT ![t] = value]

\* a thread calls start_socket_server_thread(socket_name), line 267
CallerEnter(t, socket_name) ==
    /\ t_pc[t] = "idle"
    /\ t_name' = [t_name EXCEPT ![t] = socket_name]
    /\ Goto(t, "guard")
    /\ UNCHANGED <<g_server_socket, g_socket_running, g_socket_thread, sfd,
                   n_threads, caller_frame>>

\* if (g_socket_running) return true, lines 268-271
CallerGuard(t) ==
    /\ t_pc[t] = "guard"
    /\ IF g_socket_running THEN Return(t, "true") ELSE Goto(t, "socket")
    /\ UNCHANGED <<g_server_socket, g_socket_running, g_socket_thread, sfd,
                   t_name, n_threads, caller_frame>>

\* create_socket_server: the test of the name and
\* g_server_socket = socket(...), lines 72-85
CallerSocket(t) ==
    /\ t_pc[t] = "socket"
    /\ IF t_name[t] \in {"null", ""}
       THEN /\ Return(t, "false")
            /\ UNCHANGED <<g_server_socket, sfd>>
       ELSE IF ~HasFreeSFd
       THEN /\ g_server_socket' = 0 - 1
            /\ Return(t, "false")
            /\ UNCHANGED sfd
       ELSE /\ g_server_socket' = LowestFreeSFd
            /\ sfd' = [sfd EXCEPT ![LowestFreeSFd] =
                                      [kind |-> "socket", name |-> "", conn |-> 0]]
            /\ Goto(t, "bind")
    /\ UNCHANGED <<g_socket_running, g_socket_thread, t_name, n_threads,
                   caller_frame>>

\* bind(g_server_socket, ...), lines 97-102: it fails on a descriptor that
\* is not an unbound socket and on a name that is taken
CallerBind(t) ==
    /\ t_pc[t] = "bind"
    /\ IF /\ g_server_socket \in SFds
          /\ sfd[g_server_socket].kind = "socket"
          /\ ~NameTaken(t_name[t])
       THEN /\ sfd' = [sfd EXCEPT ![g_server_socket] = BoundFd(t_name[t])]
            /\ Goto(t, "listen")
            /\ UNCHANGED g_server_socket
       ELSE /\ sfd' = Closed(g_server_socket)
            /\ g_server_socket' = 0 - 1
            /\ Return(t, "false")
    /\ UNCHANGED <<g_socket_running, g_socket_thread, t_name, n_threads,
                   caller_frame>>

\* listen(g_server_socket, 5), lines 104-109: it fails on a descriptor that
\* is not a bound socket
CallerListen(t) ==
    /\ t_pc[t] = "listen"
    /\ IF /\ g_server_socket \in SFds
          /\ sfd[g_server_socket].kind \in {"bound", "listen"}
       THEN /\ sfd' = [sfd EXCEPT ![g_server_socket] = ListenFd(@.name)]
            /\ Goto(t, "created")
            /\ UNCHANGED g_server_socket
       ELSE /\ sfd' = Closed(g_server_socket)
            /\ g_server_socket' = 0 - 1
            /\ Return(t, "false")
    /\ UNCHANGED <<g_socket_running, g_socket_thread, t_name, n_threads,
                   caller_frame>>

\* return g_server_socket, line 112, and the test of it, lines 273-275
CallerCreated(t) ==
    /\ t_pc[t] = "created"
    /\ IF g_server_socket < 0 THEN Return(t, "false") ELSE Goto(t, "flag")
    /\ UNCHANGED <<g_server_socket, g_socket_running, g_socket_thread, sfd,
                   t_name, n_threads, caller_frame>>

\* g_socket_running = true, line 277
CallerSetFlag(t) ==
    /\ t_pc[t] = "flag"
    /\ g_socket_running' = TRUE
    /\ Goto(t, "thread")
    /\ UNCHANGED <<g_server_socket, g_socket_thread, sfd, t_name, n_threads,
                   caller_frame>>

\* pthread_create(&g_socket_thread, ...) and what follows it, lines 279-289
CallerPthreadCreate(t) ==
    /\ t_pc[t] = "thread"
    /\ \E ret \in {0, 1} :
         IF ret # 0
         THEN /\ g_socket_running' = FALSE
              /\ sfd' = Closed(g_server_socket)
              /\ g_server_socket' = 0 - 1
              /\ Return(t, "false")
              /\ UNCHANGED <<g_socket_thread, n_threads>>
         ELSE /\ g_socket_thread' = "created"
              /\ n_threads' = n_threads + 1
              /\ Return(t, "true")
              /\ UNCHANGED <<g_server_socket, g_socket_running, sfd>>
    /\ UNCHANGED <<t_name, caller_frame>>

CallersNext ==
    \/ \E t \in Callers, n \in CallerNames : CallerEnter(t, n)
    \/ \E t \in Callers : CallerGuard(t)
    \/ \E t \in Callers : CallerSocket(t)
    \/ \E t \in Callers : CallerBind(t)
    \/ \E t \in Callers : CallerListen(t)
    \/ \E t \in Callers : CallerCreated(t)
    \/ \E t \in Callers : CallerSetFlag(t)
    \/ \E t \in Callers : CallerPthreadCreate(t)

\* Two threads of process S, each calling start_socket_server_thread once on
\* a server that was never started.
CallersSpec == Init /\ [][CallersNext]_vars

ClientEndsClosed(cs) ==
    [c \in ConnIds |->
        IF cs[c].by = "K"
        THEN [cs[c] EXCEPT !.cli_open = FALSE, !.to_cli = <<>>] ELSE cs[c]]

\* stop_socket_server() in process K, lines 298-311.  K has no listening
\* socket; its g_client_socket is closed and reset (lines 305-308).  K never
\* created a server thread, so the pthread_join of line 311 is undefined: it
\* returns an error, or the process aborts.
ClientStop ==
    /\ kpc # "aborted"
    /\ \E abort \in BOOLEAN :
         IF abort
         THEN /\ kpc' = "aborted"
              /\ kfd' = [f \in KFds |-> 0]
              /\ conns' = ClientEndsClosed(conns)
         ELSE /\ kfd' = IF g_client_socket \in KFds
                        THEN [kfd EXCEPT ![g_client_socket] = 0] ELSE kfd
              /\ conns' = IF KConn(g_client_socket) # 0
                          THEN [conns EXCEPT
                                  ![KConn(g_client_socket)].cli_open = FALSE,
                                  ![KConn(g_client_socket)].to_cli = <<>>]
                          ELSE conns
              /\ UNCHANGED kpc
    /\ g_client_socket' = 0 - 1
    /\ UNCHANGED <<g_connection_lost_callback, k_interval, client_history,
                   backlog, client_frame, starter_vars>>

ClientStopNext ==
    \/ \E n \in SocketNames : start_socket_server_thread(n)
    \/ StopBegin
    \/ StopJoin
    \/ ServerThread
    \/ \E cb \in BOOLEAN : set_connection_lost_callback(cb)
    \/ \E n \in SocketNames, i \in ClientIntervals : HeartbeatStart(n, i)
    \/ HeartbeatClient
    \/ ClientStop

\* ClientSpec with stop_socket_server called in process K at any time.
ClientStopSpec == Init /\ [][ClientStopNext]_vars

\* C27: a call of start_heartbeat_client that connected and returns with a
\* callback registered has called the callback exactly once.
C27_CallbackOnce ==
    [][(/\ kpc \in {"check", "send", "recv", "sleep"}
        /\ kpc' = "returned"
        /\ g_connection_lost_callback) => k_callbacks' = 1]_vars

\* C28: stop_socket_server calls pthread_join only on a thread that was
\* created and has not been joined yet.
C28_JoinsOnlyCreated ==
    [][StopJoin => g_socket_thread = "created"]_vars

\* C29: every open socket descriptor is named by the global of its process:
\* an open descriptor of K is g_client_socket, an open unconnected or
\* listening descriptor of S is g_server_socket.
C29_NoOrphan ==
    /\ \A f \in KFds : kfd[f] # 0 => g_client_socket = f
    /\ \A f \in SFds :
         sfd[f].kind \in {"socket", "bound", "listen"} => g_server_socket = f

\* the server of S after a stop_socket_server that has returned
Stopped ==
    /\ s_alive
    /\ api_pc = "idle"
    /\ ~g_socket_running
    /\ g_socket_thread = "joined"

ListeningFds == {f \in SFds : sfd[f].kind = "listen"}

\* C30: after stop_socket_server has returned, no thread and no descriptor
\* of the server is left, nothing of the earlier run keeps
\* create_socket_server from succeeding, and a start that returns true
\* leaves exactly one listening socket, named by g_server_socket, and one
\* running thread; this holds after every stop, however many came before.
C30_RoundTrip ==
    /\ [](Stopped =>
            /\ spc = "done"
            /\ g_server_socket < 0
            /\ \A f \in SFds : sfd[f] = FreeFd
            /\ \A n \in ValidNames : create_socket_server(n, "none").ret >= 0)
    /\ [][(/\ Stopped
           /\ \E n \in ValidNames : start_socket_server_thread(n)
           /\ s_ret'.ret)
          => /\ s_ret'.line = 289
             /\ g_socket_running'
             /\ g_socket_thread' = "created"
             /\ spc' = "check"
             /\ ListeningFds' = {g_server_socket'}]_vars

\* a server that was started again after a stop: the thread has just been
\* created (the loop test of line 215 is its next step, no receive of this
\* run has failed) while the history holds a peer served by the thread of
\* an earlier run
C30_Witness ==
    /\ g_socket_running
    /\ g_socket_thread = "created"
    /\ s_ret = ReturnedAt(TRUE, 289)
    /\ spc = "check"
    /\ ~srv_lost
    /\ srv_from # 0
    /\ ListeningFds = {g_server_socket}

====
